---- MODULE Spec2Model ----
(***************************************************************************)
(* Model of the forward-scanning pre-tokenizer of src/src/lib.rs           *)
(* (PatternIterator, find_matches) and of the reference pattern its tests  *)
(* compare it with.                                                        *)
(*                                                                         *)
(* A text is a sequence of Unicode scalar values (integers).  Offsets are  *)
(* byte offsets into the UTF-8 encoding of the text, as in the source: a   *)
(* code point c occupies len_utf8(c) bytes.                                *)
(***************************************************************************)
EXTENDS Integers, Sequences, FiniteSets, TLC

VARIABLES text, current_pos, toks, last, rule, order

vars == <<text, current_pos, toks, last, rule, order>>

(***************************************************************************)
(* Bounds of the model.                                                    *)
(***************************************************************************)
MaxLen == 4
MaxDigitLen == 7
MaxWsLen == 5
MaxQuoteLen == 4
MaxSwapLen == 3

(***************************************************************************)
(* Results of a rule / of a peek.  Offsets and code points are >= 0.       *)
(***************************************************************************)
\* Option::None
NONE == -1
\* a panic of a str slice taken off a char boundary or past the end
PANIC == -2

(***************************************************************************)
(* Characters.                                                             *)
(***************************************************************************)
\* char::len_utf8
len_utf8(c) ==
    IF c < 128 THEN 1 ELSE IF c < 2048 THEN 2 ELSE IF c < 65536 THEN 3 ELSE 4

\* PatternIterator::is_newline: '\r' or '\n'
is_newline(c) == c = 13 \/ c = 10

\* PatternIterator::is_letter: LETTER_RE, \p{L}.  The General Category L
\* table, up to U+02C1.
is_letter(c) ==
    \/ c \in 65..90
    \/ c \in 97..122
    \/ c \in {170, 181, 186}
    \/ c \in 192..214
    \/ c \in 216..246
    \/ c \in 248..705

\* PatternIterator::is_number: NUMBER_RE, \p{N}.  The General Category N
\* table, up to U+0669.
is_number(c) ==
    \/ c \in 48..57
    \/ c \in {178, 179, 185, 188, 189, 190}
    \/ c \in 1632..1641

\* char::is_whitespace: the White_Space property
is_whitespace(c) ==
    \/ c \in 9..13
    \/ c \in {32, 133, 160, 5760, 8232, 8233, 8239, 8287, 12288}
    \/ c \in 8192..8202

\* char::to_ascii_lowercase
to_ascii_lowercase(c) == IF c \in 65..90 THEN c + 32 ELSE c

\* mutant: the comparison minds the case
eq_same_case(a, b) == a = b

\* str::eq_ignore_ascii_case on sequences of code points
eq_ignore_ascii_case(a, b) ==
    /\ Len(a) = Len(b)
    /\ \A i \in 1..Len(a) : to_ascii_lowercase(a[i]) = to_ascii_lowercase(b[i])

(***************************************************************************)
(* The text as UTF-8: byte offsets.                                        *)
(***************************************************************************)
RECURSIVE Offset(_, _)
\* byte offset of the end of the first i code points of T
Offset(T, i) == IF i = 0 THEN 0 ELSE Offset(T, i - 1) + len_utf8(T[i])

\* str::len: the length in bytes
text_len(T) == Offset(T, Len(T))

\* str::is_char_boundary
is_char_boundary(T, pos) == \E i \in 0..Len(T) : Offset(T, i) = pos

\* PatternIterator::peek_char_at: self.text[pos..].chars().next().
\* The slice panics when pos is no char boundary (or is past the end).
peek_char_at(T, pos) ==
    IF ~is_char_boundary(T, pos) THEN PANIC
    ELSE IF pos = text_len(T) THEN NONE
    ELSE T[(CHOOSE i \in 0..Len(T) : Offset(T, i) = pos) + 1]

\* PatternIterator::char_len_at
char_len_at(T, pos) ==
    LET c == peek_char_at(T, pos)
    IN  IF c = PANIC THEN PANIC ELSE IF c = NONE THEN 0 ELSE len_utf8(c)

(***************************************************************************)
(* Rule 1: apostrophe contraction.                                         *)
(***************************************************************************)
try_match_apostrophe_contractions(T, start_pos) ==
    IF start_pos >= text_len(T) THEN NONE
    ELSE IF peek_char_at(T, start_pos) = PANIC THEN PANIC
    ELSE IF peek_char_at(T, start_pos) # 39 THEN NONE
    ELSE
      LET first_char == peek_char_at(T, start_pos + 1)
          second_char ==
              IF first_char >= 0
              THEN peek_char_at(T, start_pos + 1 + len_utf8(first_char))
              ELSE NONE
          two_char_str == <<first_char, second_char>>
      IN  IF first_char = PANIC \/ second_char = PANIC THEN PANIC
          ELSE IF first_char = NONE THEN NONE
          ELSE IF /\ second_char # NONE
                  /\ \/ eq_ignore_ascii_case(two_char_str, <<108, 108>>)
                     \/ eq_ignore_ascii_case(two_char_str, <<118, 101>>)
                     \/ eq_ignore_ascii_case(two_char_str, <<114, 101>>)
          THEN start_pos + 1 + len_utf8(first_char) + len_utf8(second_char)
          ELSE IF to_ascii_lowercase(first_char) \in {115, 100, 109, 116}
          THEN start_pos + 1 + len_utf8(first_char)
          ELSE NONE

(***************************************************************************)
(* Rule 2: optional lead character + letters.                              *)
(***************************************************************************)
RECURSIVE letters_end(_, _)
\* the loop of lines 141-147: skip letters
letters_end(T, pos) ==
    LET c == peek_char_at(T, pos)
    IN  IF c = PANIC THEN PANIC
        ELSE IF c # NONE /\ is_letter(c) THEN letters_end(T, pos + len_utf8(c))
        ELSE pos

\* mutant: zero letters accepted (pos >= letter_start)
try_match_optional_nonalpha_zero_letters(T, start_pos) ==
    LET c == peek_char_at(T, start_pos)
        letter_start ==
            IF c >= 0 /\ ~is_letter(c) /\ ~is_number(c) /\ ~is_newline(c)
            THEN start_pos + len_utf8(c)
            ELSE start_pos
        pos == letters_end(T, letter_start)
    IN  IF c = PANIC \/ pos = PANIC THEN PANIC
        ELSE IF pos >= letter_start THEN pos
        ELSE NONE

\* mutant: the lead character counted as one byte (pos += 1)
try_match_optional_nonalpha_one_byte_lead(T, start_pos) ==
    LET c == peek_char_at(T, start_pos)
        letter_start ==
            IF c >= 0 /\ ~is_letter(c) /\ ~is_number(c) /\ ~is_newline(c)
            THEN start_pos + 1
            ELSE start_pos
        pos == letters_end(T, letter_start)
    IN  IF c = PANIC \/ pos = PANIC THEN PANIC
        ELSE IF pos > letter_start THEN pos
        ELSE NONE

\* mutant: no optional lead character
try_match_letters_only(T, start_pos) ==
    LET pos == letters_end(T, start_pos)
    IN  IF pos = PANIC THEN PANIC
        ELSE IF pos > start_pos THEN pos
        ELSE NONE

try_match_optional_nonalpha_plus_letters(T, start_pos) ==
    LET c == peek_char_at(T, start_pos)
        letter_start ==
            IF c >= 0 /\ ~is_letter(c) /\ ~is_number(c) /\ ~is_newline(c)
            THEN start_pos + len_utf8(c)
            ELSE start_pos
        pos == letters_end(T, letter_start)
    IN  IF c = PANIC \/ pos = PANIC THEN PANIC
        ELSE IF pos > letter_start THEN pos
        ELSE NONE

(***************************************************************************)
(* Rule 3: one to three numbers.                                           *)
(***************************************************************************)
RECURSIVE numbers_end_le_3(_, _, _)
\* mutant: count <= 3, a fourth number taken
numbers_end_le_3(T, pos, count) ==
    IF count <= 3
    THEN LET c == peek_char_at(T, pos)
         IN  IF c = PANIC THEN <<PANIC, count>>
             ELSE IF c # NONE /\ is_number(c)
             THEN numbers_end_le_3(T, pos + len_utf8(c), count + 1)
             ELSE <<pos, count>>
    ELSE <<pos, count>>

RECURSIVE numbers_end(_, _, _)
\* the loop of lines 161-172: skip numbers while count < 3
numbers_end(T, pos, count) ==
    IF count < 3
    THEN LET c == peek_char_at(T, pos)
         IN  IF c = PANIC THEN <<PANIC, count>>
             ELSE IF c # NONE /\ is_number(c)
             THEN numbers_end(T, pos + len_utf8(c), count + 1)
             ELSE <<pos, count>>
    ELSE <<pos, count>>

\* mutant: zero numbers accepted (count >= 0)
try_match_numbers_0_to_3(T, start_pos) ==
    LET r == numbers_end(T, start_pos, 0)
    IN  IF r[1] = PANIC THEN PANIC
        ELSE IF r[2] >= 0 THEN r[1]
        ELSE NONE

try_match_numbers_1_to_3(T, start_pos) ==
    LET r == numbers_end(T, start_pos, 0)
    IN  IF r[1] = PANIC THEN PANIC
        ELSE IF r[2] > 0 THEN r[1]
        ELSE NONE

(***************************************************************************)
(* Rule 4: optional space + other characters + newlines.                   *)
(***************************************************************************)
RECURSIVE special_end(_, _)
\* the loop of lines 195-201: skip characters that are neither white space,
\* letter nor number
special_end(T, pos) ==
    LET c == peek_char_at(T, pos)
    IN  IF c = PANIC THEN PANIC
        ELSE IF c # NONE /\ ~is_whitespace(c) /\ ~is_letter(c) /\ ~is_number(c)
        THEN special_end(T, pos + len_utf8(c))
        ELSE pos

RECURSIVE newlines_end(_, _)
\* the loops of lines 204-210 and 229-235: skip newlines
newlines_end(T, pos) ==
    LET c == peek_char_at(T, pos)
    IN  IF c = PANIC THEN PANIC
        ELSE IF c # NONE /\ is_newline(c) THEN newlines_end(T, pos + len_utf8(c))
        ELSE pos

try_match_space_plus_nonwhitespace_with_newlines(T, start_pos) ==
    IF start_pos >= text_len(T) THEN NONE
    ELSE
      LET c == peek_char_at(T, start_pos)
          special_start == IF c = 32 THEN start_pos + len_utf8(c) ELSE start_pos
          pos == special_end(T, special_start)
      IN  IF c = PANIC \/ pos = PANIC THEN PANIC
          ELSE IF pos > special_start THEN newlines_end(T, pos)
          ELSE NONE

(***************************************************************************)
(* Rule 5: white space that is no newline, then newlines.                  *)
(***************************************************************************)
RECURSIVE blanks_end(_, _)
\* the loop of lines 220-226: skip white space that is no newline
blanks_end(T, pos) ==
    LET c == peek_char_at(T, pos)
    IN  IF c = PANIC THEN PANIC
        ELSE IF c # NONE /\ is_whitespace(c) /\ ~is_newline(c)
        THEN blanks_end(T, pos + len_utf8(c))
        ELSE pos

try_match_whitespace_before_newlines(T, start_pos) ==
    LET newline_start == blanks_end(T, start_pos)
        pos == IF newline_start = PANIC THEN PANIC
               ELSE newlines_end(T, newline_start)
    IN  IF pos = PANIC THEN PANIC
        ELSE IF pos > newline_start THEN pos
        ELSE NONE

(***************************************************************************)
(* Rule 6: white space followed by white space or by the end of the text.  *)
(***************************************************************************)
RECURSIVE blank_positions(_, _)
\* the loop of lines 258-265: the end offset of every prefix of the run of
\* white space that is no newline (<<PANIC>> when a peek panics)
blank_positions(T, pos) ==
    LET c == peek_char_at(T, pos)
    IN  IF c = PANIC THEN <<PANIC>>
        ELSE IF c # NONE /\ is_whitespace(c) /\ ~is_newline(c)
        THEN LET rest == blank_positions(T, pos + len_utf8(c))
             IN  IF rest = <<PANIC>> THEN rest
                 ELSE <<pos + len_utf8(c)>> \o rest
        ELSE <<>>

RECURSIVE last_followed_by_end(_, _, _)
\* mutant: only the end of the text ends the search, white space does not
last_followed_by_end(T, positions, k) ==
    IF k = 0 THEN NONE
    ELSE LET c == peek_char_at(T, positions[k])
         IN  IF c = PANIC THEN PANIC
             ELSE IF c = NONE THEN positions[k]
             ELSE last_followed_by_end(T, positions, k - 1)

\* mutant: the whole run is taken, whatever follows it
last_position(T, positions, k) == IF k = 0 THEN NONE ELSE positions[k]

RECURSIVE last_followed_by_blank(_, _, _)
\* the loop of lines 267-273: positions[k], positions[k-1], ... down to the
\* first one followed by white space or by the end of the text
last_followed_by_blank(T, positions, k) ==
    IF k = 0 THEN NONE
    ELSE LET c == peek_char_at(T, positions[k])
         IN  IF c = PANIC THEN PANIC
             ELSE IF c = NONE THEN positions[k]
             ELSE IF is_whitespace(c) THEN positions[k]
             ELSE last_followed_by_blank(T, positions, k - 1)

try_match_whitespace_followed_by_whitespace_or_end(T, start_pos) ==
    IF start_pos >= text_len(T) THEN NONE
    ELSE
      LET c == peek_char_at(T, start_pos)
      IN  IF c = PANIC THEN PANIC
          ELSE IF c # NONE /\ (~is_whitespace(c) \/ is_newline(c)) THEN NONE
          ELSE LET positions == blank_positions(T, start_pos)
               IN  IF positions = <<PANIC>> THEN PANIC
                   ELSE last_followed_by_blank(T, positions, Len(positions))

(***************************************************************************)
(* Rule 7: any white space.                                                *)
(***************************************************************************)
RECURSIVE whitespace_end(_, _)
\* the loop of lines 282-288: skip white space
whitespace_end(T, pos) ==
    LET c == peek_char_at(T, pos)
    IN  IF c = PANIC THEN PANIC
        ELSE IF c # NONE /\ is_whitespace(c)
        THEN whitespace_end(T, pos + len_utf8(c))
        ELSE pos

\* mutant: two characters of white space needed (pos > ws_start + 1)
try_match_any_whitespace_twice(T, start_pos) ==
    LET pos == whitespace_end(T, start_pos)
    IN  IF pos = PANIC THEN PANIC
        ELSE IF pos > start_pos + 1 THEN pos
        ELSE NONE

try_match_any_whitespace(T, start_pos) ==
    LET pos == whitespace_end(T, start_pos)
    IN  IF pos = PANIC THEN PANIC
        ELSE IF pos > start_pos THEN pos
        ELSE NONE

(***************************************************************************)
(* The priority ladder of next().                                          *)
(***************************************************************************)
\* the rule tried in place r of the ladder of lines 59-92
try_rule(r, T, start_pos) ==
    CASE r = 1 -> try_match_apostrophe_contractions(T, start_pos)
      [] r = 2 -> try_match_optional_nonalpha_plus_letters(T, start_pos)
      [] r = 3 -> try_match_numbers_1_to_3(T, start_pos)
      [] r = 4 -> try_match_space_plus_nonwhitespace_with_newlines(T, start_pos)
      [] r = 5 -> try_match_whitespace_before_newlines(T, start_pos)
      [] r = 6 -> try_match_whitespace_followed_by_whitespace_or_end(T, start_pos)
      [] r = 7 -> try_match_any_whitespace(T, start_pos)

\* the fallback of lines 94-95: one code point (at least one byte)
fallback(T, start_pos) ==
    LET n == char_len_at(T, start_pos)
    IN  IF n = PANIC THEN PANIC
        ELSE start_pos + (IF n > 1 THEN n ELSE 1)

\* the order in which next() tries the rules
LadderOrder == <<1, 2, 3, 4, 5, 6, 7>>

RECURSIVE ladder(_, _, _, _)
\* <<rule, end_pos>> of the first rule, from place k of the ladder ord on,
\* that does not decline at start_pos; rule 8 is the fallback.  The slice
\* text[start_pos..end_pos] panics off a char boundary.
ladder(ord, T, start_pos, k) ==
    IF k > Len(ord)
    THEN LET e == fallback(T, start_pos)
         IN  <<8, IF e = PANIC \/ ~is_char_boundary(T, e) THEN PANIC ELSE e>>
    ELSE LET e == try_rule(ord[k], T, start_pos)
         IN  IF e = NONE THEN ladder(ord, T, start_pos, k + 1)
             ELSE <<ord[k], IF e = PANIC \/ ~is_char_boundary(T, e)
                            THEN PANIC ELSE e>>

(***************************************************************************)
(* The iterator.                                                           *)
(*   text         the borrowed input                                       *)
(*   current_pos  the cursor, a byte offset                                *)
(*   toks         the spans <<start, end>> returned so far                 *)
(*   last         what the latest next() did: "New" before the first call, *)
(*                "Some", "None", or "Panic"                               *)
(*   rule         the rule that made the latest token (0: none yet)        *)
(*   order        the ladder in use                                        *)
(***************************************************************************)
\* Iterator::next
next ==
    /\ last # "Panic"
    /\ IF current_pos >= text_len(text)
       THEN /\ last' = "None"
            /\ UNCHANGED <<text, current_pos, toks, rule, order>>
       ELSE LET m == ladder(order, text, current_pos, 1)
            IN  IF m[2] = PANIC
                THEN /\ last' = "Panic"
                     /\ UNCHANGED <<text, current_pos, toks, rule, order>>
                ELSE /\ current_pos' = m[2]
                     /\ toks' = Append(toks, <<current_pos, m[2]>>)
                     /\ rule' = m[1]
                     /\ last' = "Some"
                     /\ UNCHANGED <<text, order>>

RECURSIVE collect(_, _, _)
\* Iterator::collect: next() until it returns None.  A panic unwinds and
\* nothing is returned: the tokens so far, then <<PANIC, PANIC>>; a call
\* that does not advance is repeated for ever: then <<NONE, NONE>>.
collect(ord, T, pos) ==
    IF pos >= text_len(T) THEN <<>>
    ELSE LET m == ladder(ord, T, pos, 1)
         IN  IF m[2] = PANIC THEN <<<<PANIC, PANIC>>>>
             ELSE IF m[2] <= pos THEN <<<<NONE, NONE>>>>
             ELSE <<<<pos, m[2]>>>> \o collect(ord, T, m[2])

\* find_matches
find_matches(T) == collect(LadderOrder, T, 0)

(***************************************************************************)
(* The reference pattern of the tests (GPT4_PATTERN), matched the way a    *)
(* backtracking engine matches it: alternatives in order, the first one    *)
(* that matches at a position wins, greedy quantifiers give back, the      *)
(* possessive ones (?+, ++) do not.  Positions are indices of code points  *)
(* (1-based: i is the next character to read); run_regex gives the byte    *)
(* offsets of the matches, as find_iter does.                               *)
(***************************************************************************)
\* the character at index i, NONE past the end of the text
char_at(T, i) == IF i \in 1..Len(T) THEN T[i] ELSE NONE

\* [^\s\p{L}\p{N}]
re_other(c) == ~is_whitespace(c) /\ ~is_letter(c) /\ ~is_number(c)

\* the character classes of the pattern
in_class(class, c) ==
    CASE class = "\\p{L}" -> is_letter(c)
      [] class = "\\p{N}" -> is_number(c)
      [] class = "\\s" -> is_whitespace(c)
      [] class = "[\\r\\n]" -> is_newline(c)
      [] class = "[^\\s\\p{L}\\p{N}]" -> re_other(c)

\* the end of the longest run of characters of a class at index i: greedy *
run_end(class, T, i) ==
    CHOOSE j \in i..(Len(T) + 1) :
        /\ \A k \in i..(j - 1) : in_class(class, T[k])
        /\ j = Len(T) + 1 \/ ~in_class(class, T[j])

\* (?i): a character and a pattern letter match when their simple case
\* foldings agree; U+017F (long s) folds to s and U+212A (kelvin) to k
case_fold(c) ==
    IF c \in 65..90 THEN c + 32
    ELSE IF c = 383 THEN 115
    ELSE IF c = 8490 THEN 107
    ELSE c

\* '(?i:[sdmt]|ll|ve|re)
re_contraction(T, i) ==
    IF char_at(T, i) # 39 THEN NONE
    ELSE IF case_fold(char_at(T, i + 1)) \in {115, 100, 109, 116} THEN i + 2
    ELSE IF <<case_fold(char_at(T, i + 1)), case_fold(char_at(T, i + 2))>>
                \in {<<108, 108>>, <<118, 101>>, <<114, 101>>}
    THEN i + 3
    ELSE NONE

\* [^\r\n\p{L}\p{N}]?+\p{L}+
re_letters(T, i) ==
    LET c == char_at(T, i)
        lead == IF c # NONE /\ ~is_newline(c) /\ ~is_letter(c) /\ ~is_number(c)
                THEN i + 1 ELSE i
        e == run_end("\\p{L}", T, lead)
    IN  IF e > lead THEN e ELSE NONE

\* \p{N}{1,3}
re_numbers(T, i) ==
    LET e == run_end("\\p{N}", T, i)
    IN  IF e = i THEN NONE ELSE IF e > i + 3 THEN i + 3 ELSE e

\* [^\s\p{L}\p{N}]++[\r\n]*
re_others_newlines(T, j) ==
    LET e == run_end("[^\\s\\p{L}\\p{N}]", T, j)
    IN  IF e > j THEN run_end("[\\r\\n]", T, e) ELSE NONE

\*  ?[^\s\p{L}\p{N}]++[\r\n]*   (the space first taken, then given back)
re_space_others(T, i) ==
    IF char_at(T, i) = 32 /\ re_others_newlines(T, i + 1) # NONE
    THEN re_others_newlines(T, i + 1)
    ELSE re_others_newlines(T, i)

\* the largest element of a non-empty set of integers
max_of(S) == CHOOSE x \in S : \A y \in S : y <= x

\* \s*[\r\n]   (\s* takes the whole run and gives back to the last newline)
re_blank_newline(T, i) ==
    LET e == run_end("\\s", T, i)
        ends == {k \in i..(e - 1) : is_newline(T[k])}
    IN  IF ends = {} THEN NONE ELSE max_of(ends) + 1

\* \s+(?!\S)
re_blank_not_before_nonblank(T, i) ==
    LET e == run_end("\\s", T, i)
        ends == {k \in (i + 1)..e :
                    char_at(T, k) = NONE \/ is_whitespace(char_at(T, k))}
    IN  IF ends = {} THEN NONE ELSE max_of(ends)

\* \s+
re_blank(T, i) ==
    LET e == run_end("\\s", T, i)
    IN  IF e > i THEN e ELSE NONE

\* GPT4_PATTERN at index i: the first alternative that matches
GPT4_PATTERN(T, i) ==
    IF re_contraction(T, i) # NONE THEN re_contraction(T, i)
    ELSE IF re_letters(T, i) # NONE THEN re_letters(T, i)
    ELSE IF re_numbers(T, i) # NONE THEN re_numbers(T, i)
    ELSE IF re_space_others(T, i) # NONE THEN re_space_others(T, i)
    ELSE IF re_blank_newline(T, i) # NONE THEN re_blank_newline(T, i)
    ELSE IF re_blank_not_before_nonblank(T, i) # NONE
    THEN re_blank_not_before_nonblank(T, i)
    ELSE re_blank(T, i)

RECURSIVE find_iter(_, _)
\* Regex::find_iter from index i: leftmost matches, none overlapping
find_iter(T, i) ==
    IF i > Len(T) THEN <<>>
    ELSE LET e == GPT4_PATTERN(T, i)
         IN  IF e = NONE THEN find_iter(T, i + 1)
             ELSE <<<<Offset(T, i - 1), Offset(T, e - 1)>>>> \o find_iter(T, e)

\* tests::run_regex
run_regex(T) == find_iter(T, 1)

(***************************************************************************)
(* Inputs.                                                                 *)
(***************************************************************************)
Texts(alphabet, n) == UNION {[1..k -> alphabet] : k \in 0..n}

\* ' s U+00E9(e acute) 1 space U+00A0(no-break space) LF U+00A5(yen)
Alphabet == {39, 115, 233, 49, 32, 160, 10, 165}

\* ' s T l L v E r a space: the contraction suffixes, in both cases
QuoteAlphabet == {39, 115, 84, 108, 76, 118, 69, 114, 97, 32}

\* 1 U+0663(arabic-indic digit three) l
DigitAlphabet == {49, 1635, 108}

\* space U+00A0(no-break space) CR l 1 U+00A5(yen)
WsAlphabet == {32, 160, 13, 108, 49, 165}

\* ' s 1 space LF U+00A5(yen)
SwapAlphabet == {39, 115, 49, 32, 10, 165}

\* PatternIterator::new
new(T) ==
    /\ text = T
    /\ current_pos = 0
    /\ toks = <<>>
    /\ last = "New"
    /\ rule = 0
    /\ order = LadderOrder

Init == \E T \in Texts(Alphabet, MaxLen) : new(T)

Next == next

Spec == Init /\ [][Next]_vars

\* the iterator over texts of contractions
InitQuote == \E T \in Texts(QuoteAlphabet, MaxQuoteLen) : new(T)
SpecQuote == InitQuote /\ [][Next]_vars

\* the iterator over texts of digits
InitDigit == \E T \in Texts(DigitAlphabet, MaxDigitLen) : new(T)
SpecDigit == InitDigit /\ [][Next]_vars

\* the iterator over texts of white space
InitWs == \E T \in Texts(WsAlphabet, MaxWsLen) : new(T)
SpecWs == InitWs /\ [][Next]_vars

(***************************************************************************)
(* The iterator with two rules of the ladder exchanged.                    *)
(***************************************************************************)
Pairs == {p \in (1..7) \X (1..7) : p[1] < p[2]}

\* the ladder of next() with the rules in places p[1] and p[2] exchanged
swapped(p) ==
    [k \in 1..7 |-> IF k = p[1] THEN LadderOrder[p[2]]
                    ELSE IF k = p[2] THEN LadderOrder[p[1]]
                    ELSE LadderOrder[k]]

InitSwap ==
    \E T \in Texts(SwapAlphabet, MaxSwapLen), p \in Pairs :
        /\ text = T
        /\ current_pos = 0
        /\ toks = <<>>
        /\ last = "New"
        /\ rule = 0
        /\ order = swapped(p)

SpecSwap == InitSwap /\ [][Next]_vars


(***************************************************************************)
(* Vocabulary of the properties.                                           *)
(***************************************************************************)
\* the number of code points before byte offset pos (a char boundary)
cp_index(T, pos) == CHOOSE i \in 0..Len(T) : Offset(T, i) = pos

\* &text[start..end]: the code points of a span
slice(T, tok) == SubSeq(T, cp_index(T, tok[1]) + 1, cp_index(T, tok[2]))

RECURSIVE concat(_, _, _)
\* the concatenation of the first k spans of ts
concat(T, ts, k) ==
    IF k = 0 THEN <<>> ELSE concat(T, ts, k - 1) \o slice(T, ts[k])

\* the spans ts are non-empty, aligned, start at 0 and follow one another
Contiguous(T, ts) ==
    /\ \A k \in 1..Len(ts) :
          /\ ts[k][1] >= 0
          /\ ts[k][1] < ts[k][2]
          /\ is_char_boundary(T, ts[k][1])
          /\ is_char_boundary(T, ts[k][2])
    /\ ts # <<>> => ts[1][1] = 0
    /\ \A k \in 1..(Len(ts) - 1) : ts[k][2] = ts[k + 1][1]

\* the spans ts partition T
Partitions(T, ts) ==
    /\ Contiguous(T, ts)
    /\ (IF ts = <<>> THEN 0 ELSE ts[Len(ts)][2]) = text_len(T)
    /\ concat(T, ts, Len(ts)) = T

\* the latest token, the index of its first code point, its length in code
\* points and the character after it
LastTok == toks[Len(toks)]
LastStart == cp_index(text, LastTok[1]) + 1
LastCount == cp_index(text, LastTok[2]) - cp_index(text, LastTok[1])
LastFollower == char_at(text, LastStart + LastCount)

\* the contraction suffixes of two characters and of one, in either ASCII
\* case: ll, ve, re and s, d, m, t
SuffixTwo ==
    ({108, 76} \X {108, 76}) \cup ({118, 86} \X {101, 69})
        \cup ({114, 82} \X {101, 69})

SuffixOne == {115, 83, 100, 68, 109, 77, 116, 84}

\* the numbers among the code points of a span
numbers_in(T, tok) ==
    {i \in (cp_index(T, tok[1]) + 1)..cp_index(T, tok[2]) : is_number(T[i])}

\* the length of the run of numbers that starts at index a
number_run(T, a) ==
    CHOOSE m \in 0..(Len(T) - a + 1) :
        /\ \A i \in a..(a + m - 1) : is_number(T[i])
        /\ a + m = Len(T) + 1 \/ ~is_number(T[a + m])

\* white space that is no newline
is_blank(c) == c # NONE /\ is_whitespace(c) /\ ~is_newline(c)

\* the length of the run of blanks that starts at index s
blank_run(T, s) ==
    CHOOSE r \in 0..(Len(T) - s + 1) :
        /\ \A i \in s..(s + r - 1) : is_blank(T[i])
        /\ ~is_blank(char_at(T, s + r))

\* the ladder ord gives, on some text, other tokens than the ladder of next()
ChangesOutput(ord) ==
    \E T \in Texts(SwapAlphabet, MaxSwapLen) :
        collect(ord, T, 0) # find_matches(T)

\* the pairs of rules that never match at the same cursor while a third
\* rule is not in between: rule 3 wants a number at the cursor, rule 2 a
\* letter or a lead that is no number, rule 4 an other character or a space
\* before one, rule 5 blanks before a newline
Commuting == {<<2, 3>>, <<3, 4>>, <<3, 5>>, <<4, 5>>}

(***************************************************************************)
(* C1.  The tokens returned by successive next() calls (equivalently       *)
(* find_matches) partition the text: each is non-empty, the first starts   *)
(* at 0, each starts where the one before ended, the last ends at the      *)
(* length of the text, and their concatenation is the text.                *)
(***************************************************************************)
C1_Partition ==
    /\ Contiguous(text, toks)
    /\ toks # <<>> => LastTok[2] = current_pos
    /\ last = "New" => Partitions(text, find_matches(text))
    /\ last = "None" => Partitions(text, toks) /\ toks = find_matches(text)

\* a text with characters of several bytes, cut into three tokens or more
C1_Witness ==
    /\ last = "None"
    /\ Len(toks) >= 3
    /\ text_len(text) > Len(text) + 1

(***************************************************************************)
(* C2.  find_matches(T) is, token for token and boundary for boundary, the *)
(* sequence of matches of the reference pattern on T.                      *)
(***************************************************************************)
C2_OracleEquivalence == last = "None" => toks = run_regex(text)

\* no call has panicked, there are no more tokens than code points, and
\* find_matches returns, with no more tokens than code points
C3_Bound ==
    /\ last # "Panic"
    /\ Len(toks) <= Len(text)
    /\ last = "New" =>
          LET ts == find_matches(text)
          IN  Len(ts) <= Len(text) /\ (ts # <<>> => ts[Len(ts)][1] >= 0)

\* a call below the end of the text yields a token and moves the cursor by
\* the code point at the cursor at least
C3_Step ==
    current_pos < text_len(text) =>
        /\ last' = "Some"
        /\ toks' = Append(toks, <<current_pos, current_pos'>>)
        /\ current_pos' >= current_pos + char_len_at(text, current_pos)
        /\ current_pos' > current_pos
        /\ is_char_boundary(text, current_pos')
        /\ Len(toks') <= Len(text)

(***************************************************************************)
(* C3.  Every next() call below the end of the text yields a token and     *)
(* moves the cursor forward by one whole code point at least, so a text of *)
(* n code points is cut in n token-yielding calls at most.                 *)
(***************************************************************************)
C3_Termination == []C3_Bound /\ [][C3_Step]_vars

\* a text of three code points or more cut into as many tokens
C3_Witness ==
    /\ last = "None"
    /\ Len(text) >= 3
    /\ Len(toks) = Len(text)

\* the cursor is in range and on a char boundary, nothing has panicked, and
\* None was returned at the end of the text only
C4_CursorInv ==
    /\ current_pos \in 0..text_len(text)
    /\ is_char_boundary(text, current_pos)
    /\ last # "Panic"
    /\ last = "None" => current_pos = text_len(text)

\* a call does not move the cursor back; it returns None when the cursor is
\* the length and a token when it is below
C4_CursorStep ==
    /\ current_pos' >= current_pos
    /\ last' = "None" <=> current_pos = text_len(text)
    /\ last' = "Some" <=> current_pos < text_len(text)

(***************************************************************************)
(* C4.  The cursor is a byte offset in [0, length] on a char boundary and  *)
(* never decreases; next() returns None exactly when the cursor is the     *)
(* length, and no call panics on a slice.                                  *)
(***************************************************************************)
C4_CursorSafety == []C4_CursorInv /\ [][C4_CursorStep]_vars

\* the cursor inside a text, after a character of several bytes
C4_Witness ==
    /\ last = "Some"
    /\ current_pos < text_len(text)
    /\ current_pos > cp_index(text, current_pos)

(***************************************************************************)
(* C5.  At an apostrophe followed by a contraction suffix (ll, ve or re,   *)
(* or else s, d, m or t, in either ASCII case) next() emits the apostrophe *)
(* and the suffix, three code points or two, by rule 1, whatever follows.  *)
(***************************************************************************)
C5_Contraction ==
    (toks # <<>> /\ text[LastStart] = 39) =>
        LET a == char_at(text, LastStart + 1)
            b == char_at(text, LastStart + 2)
        IN  /\ <<a, b>> \in SuffixTwo => (rule = 1 /\ LastCount = 3)
            /\ (<<a, b>> \notin SuffixTwo /\ a \in SuffixOne) =>
                   (rule = 1 /\ LastCount = 2)

\* 'vE before a letter: the token is the contraction, the letter is left
C5_Witness ==
    /\ toks # <<>>
    /\ text[LastStart] = 39
    /\ <<char_at(text, LastStart + 1), char_at(text, LastStart + 2)>> = <<118, 69>>
    /\ LastCount = 3
    /\ LastFollower # NONE
    /\ is_letter(LastFollower)

(***************************************************************************)
(* C6.  A maximal run of m >= 1 numbers is emitted as ceil(m/3) tokens of  *)
(* numbers only, each of three numbers but the last, which has m mod 3     *)
(* when that is not zero; no token holds a fourth number.                  *)
(***************************************************************************)
C6_DigitGroups ==
    /\ \A k \in 1..Len(toks) :
          /\ Cardinality(numbers_in(text, toks[k])) <= 3
          /\ numbers_in(text, toks[k]) # {} =>
                Cardinality(numbers_in(text, toks[k]))
                    = cp_index(text, toks[k][2]) - cp_index(text, toks[k][1])
    /\ last = "None" =>
          \A a \in 1..Len(text) :
              (is_number(text[a]) /\ (a = 1 \/ ~is_number(text[a - 1]))) =>
                  LET m == number_run(text, a)
                  IN  /\ \A j \in 0..(((m + 2) \div 3) - 1) :
                            \E k \in 1..Len(toks) :
                                /\ cp_index(text, toks[k][1]) = a - 1 + 3 * j
                                /\ cp_index(text, toks[k][2])
                                     = a - 1 + (IF 3 * j + 3 <= m THEN 3 * j + 3 ELSE m)
                      /\ Cardinality({k \in 1..Len(toks) :
                              /\ cp_index(text, toks[k][1]) >= a - 1
                              /\ cp_index(text, toks[k][2]) <= a - 1 + m})
                           = (m + 2) \div 3

\* a run of seven numbers, some of two bytes, cut into 3 + 3 + 1
C6_Witness ==
    /\ last = "None"
    /\ Len(text) = 7
    /\ \A i \in 1..7 : is_number(text[i])
    /\ text[2] = 1635
    /\ Len(toks) = 3

(***************************************************************************)
(* C7.  At the start of a maximal run of r >= 1 characters of white space  *)
(* that are no newlines, with no newline after the run, rule 6 takes the   *)
(* largest k in 1..r such that the character after the first k is absent   *)
(* or white space: the whole run at the end of the text; the first r - 1   *)
(* when r >= 2 and a character that is no white space follows, the last    *)
(* one being left to the next token; nothing when r = 1 and such a         *)
(* character follows (a later rule takes it).                              *)
(***************************************************************************)
C7_Rule6 ==
    \A n \in 1..Len(toks) :
        LET s == cp_index(text, toks[n][1]) + 1
            count == cp_index(text, toks[n][2]) - cp_index(text, toks[n][1])
            r == blank_run(text, s)
            f == char_at(text, s + r)
            ks == {k \in 1..r : char_at(text, s + k) = NONE
                                    \/ is_whitespace(char_at(text, s + k))}
            rule6 == try_match_whitespace_followed_by_whitespace_or_end(text, toks[n][1])
        IN  (/\ is_blank(text[s])
             /\ s = 1 \/ ~is_blank(text[s - 1])
             /\ f = NONE \/ ~is_newline(f)) =>
                /\ rule6 = (IF ks = {} THEN NONE ELSE Offset(text, s - 1 + max_of(ks)))
                /\ f = NONE => (rule6 = toks[n][2] /\ count = r)
                /\ (r >= 2 /\ f # NONE) =>
                      /\ rule6 = toks[n][2]
                      /\ count = r - 1
                      /\ n < Len(toks) => cp_index(text, toks[n + 1][1]) = s + r - 2
                /\ (r = 1 /\ f # NONE) => (rule6 = NONE /\ count >= 1)
                /\ (n = Len(toks) /\ (r >= 2 \/ f = NONE)) => rule = 6
                /\ (n = Len(toks) /\ r = 1 /\ f # NONE) => rule \in {2, 4, 7}

\* three blanks before a letter: rule 6 takes two, the third leads the word
C7_Witness ==
    /\ Len(toks) >= 2
    /\ rule = 2
    /\ LET s == cp_index(text, toks[Len(toks) - 1][1]) + 1
       IN  /\ blank_run(text, s) = 3
           /\ s = 1 \/ ~is_blank(text[s - 1])
           /\ text[s + 1] = 160
           /\ cp_index(text, LastTok[1]) = s + 1
           /\ is_letter(char_at(text, s + 3))

(***************************************************************************)
(* C8, as stated.  Exchanging any two rules of the ladder changes the      *)
(* tokens of some text.  (The ladder is fixed along a behaviour and every  *)
(* ladder is started on the empty text: it is judged there.)               *)
(***************************************************************************)
C8_EverySwapMatters == text = <<>> => ChangesOutput(order)

(***************************************************************************)
(* C8, amended.  Exchanging two rules changes the tokens of some text,     *)
(* unless the two are rules 2 and 3, 3 and 4, 3 and 5 or 4 and 5;          *)
(* exchanging those changes the tokens of no text.                         *)
(***************************************************************************)
C8_SwapMatters ==
    /\ (text = <<>> /\ order \notin {swapped(p) : p \in Commuting}) =>
          ChangesOutput(order)
    /\ (order \in {swapped(p) : p \in Commuting} /\ last = "None") =>
          toks = find_matches(text)

\* letters tried before the contraction: 's s is one token, not two
C8_Witness ==
    /\ order = swapped(<<1, 2>>)
    /\ last = "None"
    /\ text = <<39, 115, 115>>
    /\ toks = <<<<0, 3>>>>
    /\ find_matches(text) = <<<<0, 2>>, <<2, 3>>>>

(***************************************************************************)
(* C9.  The fallback of next() is never reached: a letter at the cursor is *)
(* taken by rule 2, a number by rule 3, another character that is no white *)
(* space by rule 4 at the latest, white space by rule 7 at the latest.     *)
(***************************************************************************)
C9_NoFallback ==
    toks # <<>> =>
        LET c == text[LastStart]
        IN  /\ rule \in 1..7
            /\ is_letter(c) => rule = 2
            /\ is_number(c) => rule = 3
            /\ (~is_letter(c) /\ ~is_number(c) /\ ~is_whitespace(c)) => rule <= 4
            /\ is_whitespace(c) => rule \in {2, 4, 5, 6, 7}

\* white space that only rule 7 takes
C9_Witness == last = "Some" /\ rule = 7 /\ Len(toks) >= 2

(***************************************************************************)
(* C10.  A token made by rule 7 is one code point, white space that is no  *)
(* newline, and a character that is no white space follows it.             *)
(***************************************************************************)
C10_Rule7Single ==
    (toks # <<>> /\ rule = 7) =>
        /\ LastCount = 1
        /\ is_whitespace(text[LastStart])
        /\ ~is_newline(text[LastStart])
        /\ LastFollower # NONE
        /\ ~is_whitespace(LastFollower)

\* rule 7 takes a no-break space before a number
C10_Witness ==
    /\ toks # <<>>
    /\ rule = 7
    /\ text[LastStart] = 160
    /\ is_number(LastFollower)

====
